---- MODULE Spec2Model ----
(***************************************************************************)
(* anchor-audit: a static auditor for Anchor programs.                     *)
(*                                                                         *)
(* A source file is a sequence of lines.  Each line carries its raw text   *)
(* (a string, searched exactly as the detectors search it) and the syntax  *)
(* node that syn produces for it.  The raw text of the file is the lines   *)
(* joined by "\n"; the line number of a node is the index of its line.     *)
(***************************************************************************)
EXTENDS Naturals, Integers, Sequences, FiniteSets, TLC

VARIABLES
    files,       \* main/analyze: the discovered files (a sequence of paths)
    fail_on,     \* main: INPUT_FAIL_ON
    idx,         \* analyze: position of the `for file in files` loop
    findings,    \* analyze: the accumulated findings
    report,      \* analyze: the returned AnalysisReport (NoReport before)
    exit_code,   \* main: the process exit status (Running before)
    pc,          \* where the program is
    src,         \* detector: the file being visited, as the elements it is made of
    pos,         \* detector: the line the visitor is at
    stack,       \* detector: the open syntax nodes (the visitor's recursion)
    visitor      \* detector: the visitor's fields (current_fn, findings)

vars == <<files, fail_on, idx, findings, report, exit_code, pc,
          src, pos, stack, visitor>>

detVars == <<src, pos, stack, visitor>>

-----------------------------------------------------------------------------
(* Bounds of the model *)

MaxFiles == 3
MaxBody == 2
MaxPre == 4
MaxFields == 2
MaxNest == 4

-----------------------------------------------------------------------------
(* Strings: str::contains, str::find, slicing, str::lines *)

Min(a, b) == IF a < b THEN a ELSE b

\* usize::saturating_sub
saturating_sub(a, b) == IF a > b THEN a - b ELSE 0

\* str::find: the 0-based byte offset of the first match, or None (<<>>)
str_find(s, p) ==
    LET hits == {i \in 1..(Len(s) + 1 - Len(p)) : SubSeq(s, i, i + Len(p) - 1) = p}
    IN  IF hits = {} THEN <<>>
        ELSE <<(CHOOSE i \in hits : \A j \in hits : i <= j) - 1>>

\* str::contains
str_contains(s, p) ==
    \E i \in 1..(Len(s) + 1 - Len(p)) : SubSeq(s, i, i + Len(p) - 1) = p

\* &s[start..end] with 0-based byte offsets
str_slice(s, start, end) == SubSeq(s, start + 1, end)

\* A character of a text is one byte of its UTF-8 encoding.  The texts of the
\* model are ASCII but for one two-byte character, written "^~": "^" is its
\* leading byte and "~" its continuation byte.
Utf8Continuation == "~"

\* str::is_char_boundary
is_char_boundary(s, index) ==
    \/ index = 0
    \/ index = Len(s)
    \/ index < Len(s) /\ SubSeq(s, index + 1, index + 1) # Utf8Continuation

\* &s[start..end] panics unless both offsets are character boundaries
str_slice_panics(s, start, end) ==
    ~(start <= end /\ is_char_boundary(s, start) /\ is_char_boundary(s, end))

\* lines[start..end] with 0-based indices
vec_slice(v, start, end) == SubSeq(v, start + 1, end)

RECURSIVE JoinLines(_)
\* the raw text whose str::lines() are the given lines
JoinLines(ls) ==
    IF ls = <<>> THEN "" ELSE Head(ls).text \o "\n" \o JoinLines(Tail(ls))

RECURSIVE Rep(_, _)
\* s repeated n times
Rep(s, n) ==
    IF n = 0 THEN ""
    ELSE LET h == Rep(s, n \div 2)
         IN  IF n % 2 = 0 THEN h \o h ELSE h \o h \o s

-----------------------------------------------------------------------------
(* Finding model: analyzer/mod.rs *)

Severity == {"High", "Medium", "Low"}

\* #[derive(PartialOrd, Ord)] on the enum: declaration order
SeverityRank(s) ==
    CASE s = "High" -> 0
      [] s = "Medium" -> 1
      [] s = "Low" -> 2

Finding(sev, chk, msg, file, line) ==
    [severity |-> sev, check |-> chk, message |-> msg, file |-> file, line |-> line]

\* AnalysisReport::has_high
has_high(r) ==
    \E i \in 1..Len(r.findings) : r.findings[i].severity = "High"

\* AnalysisReport::has_medium_or_above
has_medium_or_above(r) ==
    \E i \in 1..Len(r.findings) :
        r.findings[i].severity = "High" \/ r.findings[i].severity = "Medium"

RECURSIVE InsertBySeverity(_, _)
\* insert f after every element that does not compare greater than it
InsertBySeverity(sorted, f) ==
    IF sorted = <<>> THEN <<f>>
    ELSE IF SeverityRank(Head(sorted).severity) <= SeverityRank(f.severity)
         THEN <<Head(sorted)>> \o InsertBySeverity(Tail(sorted), f)
         ELSE <<f>> \o sorted

RECURSIVE FoldInsert(_, _)
FoldInsert(acc, fsq) ==
    IF fsq = <<>> THEN acc
    ELSE FoldInsert(InsertBySeverity(acc, Head(fsq)), Tail(fsq))

\* mutant: the sort is left out
sort_by_severity_skipped(fsq) == fsq

\* findings.sort_by(|a, b| a.severity.cmp(&b.severity)): slice::sort_by is stable
sort_by_severity(fsq) == FoldInsert(<<>>, fsq)

-----------------------------------------------------------------------------
(* Source files: lines with their raw text and their syntax node *)

\* Option<T>
None == <<>>
Some(x) == <<x>>

\* an attribute #[path(args)]
Attr(path, args) == [path |-> path, args |-> args]

\* k: "fn" (ItemFn), "method" (ImplItemFn), "block" (impl/mod), "const" (the
\* block that initializes a const or static item), "struct"
\* (ItemStruct with named fields), "field", "close" (the closing brace of the
\* innermost open node), "call" (ExprCall whose func is a path), "mcall"
\* (ExprMethodCall), "other" (comments, attributes, blank lines, statements
\* with no call), "error" (text syn rejects)
Node(k, name, path, attrs) == [k |-> k, name |-> name, path |-> path, attrs |-> attrs]

Line(text, node) == [text |-> text, node |-> node]

Other(text) == Line(text, Node("other", "", <<>>, <<>>))
ItemFn(text, name) == Line(text, Node("fn", name, <<>>, <<>>))
ImplItemFn(text, name) == Line(text, Node("method", name, <<>>, <<>>))
Block(text) == Line(text, Node("block", "", <<>>, <<>>))
ConstBlock(text) == Line(text, Node("const", "", <<>>, <<>>))
Close(text) == Line(text, Node("close", "", <<>>, <<>>))
ExprCall(text, path) == Line(text, Node("call", "", path, <<>>))
ExprMethodCall(text, method) == Line(text, Node("mcall", method, <<>>, <<>>))
ItemStruct(text, name, attrs) == Line(text, Node("struct", name, <<>>, attrs))
Field(text, name, ty, attrs) == Line(text, Node("field", name, ty, attrs))
SyntaxError(text) == Line(text, Node("error", "", <<>>, <<>>))

Opens(k) == k \in {"fn", "method", "block", "const", "struct"}

\* the open nodes after a line, given the open nodes before it
Nest(st, node) ==
    IF Opens(node.k) THEN <<node.k>> \o st
    ELSE IF node.k = "close" /\ st # <<>> THEN Tail(st)
    ELSE st

RECURSIVE WellFormed(_, _, _)
\* whether lines i.. are items and statements in places the grammar allows
WellFormed(lines, i, st) ==
    IF i > Len(lines) THEN st = <<>>
    ELSE LET n == lines[i].node
             inFn == st # <<>> /\ Head(st) \in {"fn", "method", "const"}
             inStruct == st # <<>> /\ Head(st) = "struct"
             ok == CASE n.k = "error" -> FALSE
                     [] n.k = "close" -> st # <<>>
                     [] n.k \in {"call", "mcall"} -> inFn
                     [] n.k = "field" -> inStruct
                     [] n.k = "method" -> st # <<>> /\ Head(st) = "block"
                     [] n.k \in {"struct", "block", "const"} -> ~inStruct
                     [] n.k = "fn" -> ~inStruct
                     [] OTHER -> TRUE
         IN  ok /\ WellFormed(lines, i + 1, Nest(st, n))

\* syn::parse_file: Ok iff the text is a Rust file
parse_file(lines) == WellFormed(lines, 1, <<>>)

-----------------------------------------------------------------------------
(* CPI detector: analyzer/cpi.rs *)

FnSourceWindow == 2000
BumpFallbackLines == 15
InvokeLookback == 20
InvokeLookahead == 5

CpiVisitor(path) == [path |-> path, current_fn |-> None, findings |-> <<>>]

\* CpiVisitor::fn_source_text
fn_source_text(source, fn_name) ==
    LET found == str_find(source, "fn " \o fn_name)
    IN  IF found = None THEN None
        ELSE LET start == found[1]
                 end == Min(Len(source), start + FnSourceWindow)
             IN  Some(str_slice(source, start, end))

\* CpiVisitor::fn_source_text panics: the end of the window is no character boundary
fn_source_text_panics(source, fn_name) ==
    LET found == str_find(source, "fn " \o fn_name)
    IN  /\ found # None
        /\ str_slice_panics(source, found[1], Min(Len(source), found[1] + FnSourceWindow))

\* the bump verdict of check_invoke_signed_call
has_bump_check(v, lines, line) ==
    LET fn_name == IF v.current_fn = None THEN "" ELSE v.current_fn[1]
        fn_src == fn_source_text(JoinLines(lines), fn_name)
    IN  IF fn_src # None
        THEN /\ str_contains(fn_src[1], "bump")
             /\ \/ str_contains(fn_src[1], "find_program_address")
                \/ str_contains(fn_src[1], ".bump")
                \/ str_contains(fn_src[1], "bump =")
                \/ str_contains(fn_src[1], "bump=")
        ELSE LET search_start == saturating_sub(line, BumpFallbackLines)
                 search_end == Min(line + BumpFallbackLines, Len(lines))
                 w == vec_slice(lines, search_start, search_end)
             IN  \E i \in 1..Len(w) : str_contains(w[i].text, "bump")

\* CpiVisitor::check_invoke_signed_call
check_invoke_signed_call(v, lines, line) ==
    IF ~has_bump_check(v, lines, line)
    THEN [v EXCEPT !.findings = Append(@, Finding("High", "invoke-signed-no-bump",
            "invoke_signed call without bump validation.", v.path, line))]
    ELSE v

\* the context window of check_invoke_call
invoke_context(lines, line) ==
    LET search_start == saturating_sub(line, InvokeLookback)
        search_end == Min(line + InvokeLookahead, Len(lines))
    IN  JoinLines(vec_slice(lines, search_start, search_end))

\* the signer verdict of check_invoke_call
has_signer_check(lines, line) ==
    LET context == invoke_context(lines, line)
    IN  \/ str_contains(context, "is_signer")
        \/ str_contains(context, "Signer<")
        \/ str_contains(context, ".key()")
        \/ str_contains(context, ".key ==")
        \/ str_contains(context, "has_one")
        \/ str_contains(context, "constraint")

\* CpiVisitor::check_invoke_call
check_invoke_call(v, lines, line) ==
    IF ~has_signer_check(lines, line)
    THEN [v EXCEPT !.findings = Append(@, Finding("Medium", "cpi-missing-signer-check",
            "CPI invoke call without apparent signer validation in surrounding context.",
            v.path, line))]
    ELSE v

\* CpiVisitor::is_invoke_signed
is_invoke_signed(path) == path # <<>> /\ path[Len(path)] = "invoke_signed"

\* CpiVisitor::is_invoke
is_invoke(path) == path # <<>> /\ path[Len(path)] = "invoke"

\* CpiVisitor::visit_expr_call
cpi_visit_expr_call(v, lines, line) ==
    LET node == lines[line].node
    IN  IF is_invoke_signed(node.path) THEN check_invoke_signed_call(v, lines, line)
        ELSE IF is_invoke(node.path) THEN check_invoke_call(v, lines, line)
        ELSE v

\* CpiVisitor::visit_expr_method_call
cpi_visit_expr_method_call(v, lines, line) ==
    LET method == lines[line].node.name
    IN  IF method = "invoke_signed" THEN check_invoke_signed_call(v, lines, line)
        ELSE IF method = "invoke" THEN check_invoke_call(v, lines, line)
        ELSE v

\* CpiVisitor::visit_item_fn, before the walk of the function
cpi_enter_item_fn(v, node) == [v EXCEPT !.current_fn = Some(node.name)]

\* visit_item_fn that leaves the slot as it is when the function has been walked
cpi_exit_item_fn_keeping(v) == v

\* CpiVisitor::visit_item_fn, after the walk of the function
cpi_exit_item_fn(v) == [v EXCEPT !.current_fn = None]

\* the visit of the node at `line` panics: it is an invoke_signed call and the
\* slice of fn_source_text panics
cpi_panics(v, lines, line) ==
    LET node == lines[line].node
    IN  /\ \/ node.k = "call" /\ is_invoke_signed(node.path)
           \/ node.k = "mcall" /\ node.name = "invoke_signed"
        /\ fn_source_text_panics(JoinLines(lines),
                                 IF v.current_fn = None THEN "" ELSE v.current_fn[1])

\* one node of the walk of visit_file: the visitor after the node at `line`
cpi_visit(v, st, lines, line) ==
    LET node == lines[line].node
    IN  CASE node.k = "fn" -> cpi_enter_item_fn(v, node)
          [] node.k = "close" /\ st # <<>> /\ Head(st) = "fn" -> cpi_exit_item_fn(v)
          [] node.k = "call" -> cpi_visit_expr_call(v, lines, line)
          [] node.k = "mcall" -> cpi_visit_expr_method_call(v, lines, line)
          [] OTHER -> v

RECURSIVE cpi_walk(_, _, _, _)
cpi_walk(v, st, lines, line) ==
    IF line > Len(lines) THEN v
    ELSE cpi_walk(cpi_visit(v, st, lines, line), Nest(st, lines[line].node),
                  lines, line + 1)

RECURSIVE cpi_walk_panics(_, _, _, _)
\* the walk panics at some node
cpi_walk_panics(v, st, lines, line) ==
    /\ line <= Len(lines)
    /\ \/ cpi_panics(v, lines, line)
       \/ cpi_walk_panics(cpi_visit(v, st, lines, line), Nest(st, lines[line].node),
                          lines, line + 1)

\* check_cpi_safety
check_cpi_safety(lines, path) == cpi_walk(CpiVisitor(path), <<>>, lines, 1).findings

-----------------------------------------------------------------------------
(* PDA detector: analyzer/pda.rs *)

FnBodyWindow == 3000
ProgramIdFallbackLines == 10

PdaVisitor(path) == [path |-> path, current_fn |-> None, findings |-> <<>>]

\* PdaVisitor::get_fn_body_source
get_fn_body_source(v, source) ==
    IF v.current_fn = None THEN None
    ELSE LET found == str_find(source, "fn " \o v.current_fn[1])
         IN  IF found = None THEN None
             ELSE LET start == found[1]
                      end == Min(Len(source), start + FnBodyWindow)
                  IN  Some(str_slice(source, start, end))

\* PdaVisitor::get_fn_body_source panics: the end of the window is no character boundary
get_fn_body_source_panics(v, source) ==
    /\ v.current_fn # None
    /\ LET found == str_find(source, "fn " \o v.current_fn[1])
       IN  /\ found # None
           /\ str_slice_panics(source, found[1], Min(Len(source), found[1] + FnBodyWindow))

RECURSIVE JoinPath(_)
\* segments.join("::")
JoinPath(segs) ==
    IF segs = <<>> THEN ""
    ELSE IF Len(segs) = 1 THEN segs[1]
    ELSE segs[1] \o "::" \o JoinPath(Tail(segs))

\* PdaVisitor::is_find_program_address
is_find_program_address(path) == str_contains(JoinPath(path), "find_program_address")

\* PdaVisitor::is_create_program_address
is_create_program_address(path) == str_contains(JoinPath(path), "create_program_address")

\* PdaVisitor::check_program_id_verification
check_program_id_verification(v, lines, line) ==
    LET fn_src == get_fn_body_source(v, JoinLines(lines))
    IN  IF fn_src # None
        THEN \/ str_contains(fn_src[1], "program_id")
             \/ str_contains(fn_src[1], "program.key()")
             \/ str_contains(fn_src[1], "crate::ID")
             \/ str_contains(fn_src[1], "crate::id()")
             \/ str_contains(fn_src[1], "ID.key()")
        ELSE LET search_start == saturating_sub(line, ProgramIdFallbackLines)
                 search_end == Min(line + ProgramIdFallbackLines, Len(lines))
                 w == vec_slice(lines, search_start, search_end)
             IN  \E i \in 1..Len(w) :
                    \/ str_contains(w[i].text, "program_id")
                    \/ str_contains(w[i].text, "program.key()")

\* visit_expr_call with the second check uncoupled from the first: the create
\* variant always reports pda-create-unverified
pda_visit_expr_call_uncoupled(v, lines, line) ==
    LET path == lines[line].node.path
        is_find == is_find_program_address(path)
        is_create == is_create_program_address(path)
        v1 == IF ~check_program_id_verification(v, lines, line)
              THEN [v EXCEPT !.findings = Append(@, Finding("High", "pda-program-id",
                      (IF is_find THEN "find_program_address" ELSE "create_program_address")
                      \o " called without verifying against the expected program ID.",
                      v.path, line))]
              ELSE v
        v2 == IF is_create
              THEN [v1 EXCEPT !.findings = Append(@, Finding("Medium", "pda-create-unverified",
                      "create_program_address is used instead of find_program_address.",
                      v1.path, line))]
              ELSE v1
    IN  IF is_find \/ is_create THEN v2 ELSE v

\* PdaVisitor::visit_expr_call
pda_visit_expr_call(v, lines, line) ==
    LET path == lines[line].node.path
        is_find == is_find_program_address(path)
        is_create == is_create_program_address(path)
        v1 == IF ~check_program_id_verification(v, lines, line)
              THEN [v EXCEPT !.findings = Append(@, Finding("High", "pda-program-id",
                      (IF is_find THEN "find_program_address" ELSE "create_program_address")
                      \o " called without verifying against the expected program ID.",
                      v.path, line))]
              ELSE v
        v2 == IF is_create /\ ~check_program_id_verification(v1, lines, line)
              THEN [v1 EXCEPT !.findings = Append(@, Finding("Medium", "pda-create-unverified",
                      "create_program_address is used instead of find_program_address.",
                      v1.path, line))]
              ELSE v1
    IN  IF is_find \/ is_create THEN v2 ELSE v

\* PdaVisitor::visit_item_fn, before the walk of the function
pda_enter_item_fn(v, node) == [v EXCEPT !.current_fn = Some(node.name)]

\* PdaVisitor::visit_item_fn, after the walk of the function
pda_exit_item_fn(v) == [v EXCEPT !.current_fn = None]

\* the visit of the node at `line` panics: it is a derivation call and the
\* slice of get_fn_body_source panics
pda_panics(v, lines, line) ==
    LET node == lines[line].node
    IN  /\ node.k = "call"
        /\ is_find_program_address(node.path) \/ is_create_program_address(node.path)
        /\ get_fn_body_source_panics(v, JoinLines(lines))

\* one node of the walk of visit_file
pda_visit(v, st, lines, line) ==
    LET node == lines[line].node
    IN  CASE node.k = "fn" -> pda_enter_item_fn(v, node)
          [] node.k = "close" /\ st # <<>> /\ Head(st) = "fn" -> pda_exit_item_fn(v)
          [] node.k = "call" -> pda_visit_expr_call(v, lines, line)
          [] OTHER -> v

RECURSIVE pda_walk(_, _, _, _)
pda_walk(v, st, lines, line) ==
    IF line > Len(lines) THEN v
    ELSE pda_walk(pda_visit(v, st, lines, line), Nest(st, lines[line].node),
                  lines, line + 1)

RECURSIVE pda_walk_panics(_, _, _, _)
\* the walk panics at some node
pda_walk_panics(v, st, lines, line) ==
    /\ line <= Len(lines)
    /\ \/ pda_panics(v, lines, line)
       \/ pda_walk_panics(pda_visit(v, st, lines, line), Nest(st, lines[line].node),
                          lines, line + 1)

\* check_pda_usage
check_pda_usage(lines, path) == pda_walk(PdaVisitor(path), <<>>, lines, 1).findings

-----------------------------------------------------------------------------
(* Account detector: analyzer/accounts.rs *)

CheckCommentStart == 4

AccountVisitor(path) == [path |-> path, findings |-> <<>>]

RECURSIVE str_trim_start(_)
str_trim_start(s) ==
    IF Len(s) > 0 /\ SubSeq(s, 1, 1) \in {" ", "\t"}
    THEN str_trim_start(SubSeq(s, 2, Len(s))) ELSE s

RECURSIVE str_trim_end(_)
str_trim_end(s) ==
    IF Len(s) > 0 /\ SubSeq(s, Len(s), Len(s)) \in {" ", "\t"}
    THEN str_trim_end(SubSeq(s, 1, Len(s) - 1)) ELSE s

\* str::trim
str_trim(s) == str_trim_end(str_trim_start(s))

\* AccountVisitor::has_derive_accounts
has_derive_accounts(attrs) ==
    \E i \in 1..Len(attrs) :
        /\ attrs[i].path = "derive"
        /\ \E j \in 1..Len(attrs[i].args) : attrs[i].args[j] = "Accounts"

\* AccountVisitor::field_has_constraint
field_has_constraint(attrs) ==
    \E i \in 1..Len(attrs) : attrs[i].path \in {"account", "has_one", "constraint"}

\* AccountVisitor::is_raw_account_info
is_raw_account_info(ty) ==
    ty # <<>> /\ ty[Len(ty)] \in {"AccountInfo", "UncheckedAccount"}

\* AccountVisitor::is_signer_type
is_signer_type(ty) == ty # <<>> /\ ty[Len(ty)] = "Signer"

\* AccountVisitor::is_program_type
is_program_type(ty) == ty # <<>> /\ ty[Len(ty)] \in {"Program", "SystemProgram"}

\* AccountVisitor::has_check_comment; lines.get(i) is None past the end
has_check_comment(lines, line) ==
    IF line = 0 THEN FALSE
    ELSE LET start == saturating_sub(line, CheckCommentStart)
         IN  \E i \in start..(line - 1) :
                /\ i + 1 <= Len(lines)
                /\ LET trimmed == str_trim(lines[i + 1].text)
                   IN  \/ str_contains(trimmed, "/// CHECK:")
                       \/ str_contains(trimmed, "// CHECK:")
                       \/ str_contains(trimmed, "/// SAFETY:")

\* the body of the `for field in &fields.named` loop of visit_item_struct
account_visit_field(v, lines, line, struct_name) ==
    LET field == lines[line].node
        v1 == IF is_raw_account_info(field.path) /\ ~has_check_comment(lines, line)
              THEN [v EXCEPT !.findings = Append(@, Finding("High", "unchecked-account",
                      "Raw AccountInfo field " \o field.name \o " in " \o struct_name
                      \o " without /// CHECK: comment.", v.path, line))]
              ELSE v
    IN  IF is_signer_type(field.path) \/ is_program_type(field.path) THEN v1
        ELSE IF is_raw_account_info(field.path) THEN v1
        ELSE IF ~field_has_constraint(field.attrs)
        THEN LET has_any_account_attr ==
                     \E i \in 1..Len(field.attrs) : field.attrs[i].path = "account"
             IN  IF has_any_account_attr
                 THEN [v1 EXCEPT !.findings = Append(@, Finding("Medium", "missing-constraint",
                         "Field " \o field.name \o " in " \o struct_name
                         \o " has #[account] without constraints.", v1.path, line))]
                 ELSE v1
        ELSE v1

\* the struct declaration whose fields the line belongs to
EnclosingStruct(lines, line) ==
    lines[CHOOSE j \in 1..line : /\ lines[j].node.k = "struct"
                                 /\ \A m \in (j + 1)..line : lines[m].node.k # "struct"].node

\* one node of the walk of visit_file: fields are visited by visit_item_struct,
\* and only those of a struct that has_derive_accounts
account_visit(v, st, lines, line) ==
    LET node == lines[line].node
    IN  IF node.k = "field" /\ has_derive_accounts(EnclosingStruct(lines, line).attrs)
        THEN account_visit_field(v, lines, line, EnclosingStruct(lines, line).name)
        ELSE v

RECURSIVE account_walk(_, _, _, _)
account_walk(v, st, lines, line) ==
    IF line > Len(lines) THEN v
    ELSE account_walk(account_visit(v, st, lines, line), Nest(st, lines[line].node),
                      lines, line + 1)

\* check_account_validation
check_account_validation(lines, path) ==
    account_walk(AccountVisitor(path), <<>>, lines, 1).findings

-----------------------------------------------------------------------------
(* The files of the model *)

\* a function with an unvalidated invoke and an unverified PDA derivation, and
\* an account context with a raw handle: the detectors yield High
\* (accounts), Medium (cpi), High (pda), in this order
VulnerableFile ==
    <<ItemFn("fn init() {", "init"),
      ExprCall(" invoke(&ix, &accs)?;", <<"invoke">>),
      ExprCall(" Pubkey::find_program_address(&[b\"c\"], other);",
               <<"Pubkey", "find_program_address">>),
      Close("}"),
      Other("#[derive(Accounts)]"),
      ItemStruct("struct Init<'info> {", "Init", <<Attr("derive", <<"Accounts">>)>>),
      Field(" vault: AccountInfo<'info>,", "vault", <<"AccountInfo">>, <<>>),
      Close("}")>>

\* one Medium finding
MediumFile ==
    <<ItemFn("fn relay() {", "relay"),
      ExprMethodCall(" ix.invoke();", "invoke"),
      Close("}")>>

\* no finding
CleanFile ==
    <<ItemFn("fn helper() {", "helper"),
      Other(" let x = 1;"),
      Close("}")>>

\* the vulnerable function with its closing brace missing: syn rejects it
BrokenFile == SubSeq(VulnerableFile, 1, 3)

\* a function that calls invoke_signed, followed by a comment whose two-byte
\* character lies across the end of the function's text window
Utf8Head ==
    <<ItemFn("fn pay() {", "pay"),
      ExprCall(" invoke_signed(&ix, &accs, seeds)?;", <<"invoke_signed">>),
      Close("}")>>

Utf8File ==
    Utf8Head \o
        <<Other("// " \o Rep("x", FnSourceWindow - Len(JoinLines(Utf8Head)) - 4) \o "^~")>>

\* the files on disk; "locked.rs" cannot be read (read_to_string fails)
FileSystem ==
    [p \in {"locked.rs", "broken.rs", "vuln.rs", "medium.rs", "clean.rs", "utf8.rs"} |->
        CASE p = "locked.rs" -> [readable |-> FALSE, lines |-> VulnerableFile]
          [] p = "broken.rs" -> [readable |-> TRUE, lines |-> BrokenFile]
          [] p = "vuln.rs" -> [readable |-> TRUE, lines |-> VulnerableFile]
          [] p = "medium.rs" -> [readable |-> TRUE, lines |-> MediumFile]
          [] p = "clean.rs" -> [readable |-> TRUE, lines |-> CleanFile]
          [] p = "utf8.rs" -> [readable |-> TRUE, lines |-> Utf8File]]

Paths == DOMAIN FileSystem

FailOnValues == {"high", "medium", "low", "none", "critical"}

\* fail_on before main has used it
Unread == "<unread>"

-----------------------------------------------------------------------------
(* Orchestrator: analyzer/mod.rs, and the exit policy of main.rs *)

NoReport == [findings |-> <<>>, files_scanned |-> -1]
Running == -1

\* the three detectors on one parsed file, lines 84-86 of analyze
run_detectors(lines, path) ==
    check_account_validation(lines, path)
        \o check_cpi_safety(lines, path)
        \o check_pda_usage(lines, path)

\* one of the detectors panics on the parsed file
detectors_panic(lines, path) ==
    \/ cpi_walk_panics(CpiVisitor(path), <<>>, lines, 1)
    \/ pda_walk_panics(PdaVisitor(path), <<>>, lines, 1)

\* mutant: a parse failure is surfaced as a finding
analyze_file_reporting_errors(acc, file, path) ==
    IF ~file.readable THEN acc
    ELSE IF ~parse_file(file.lines)
    THEN Append(acc, Finding("Low", "parse-error", "could not parse", path, 1))
    ELSE acc \o run_detectors(file.lines, path)

\* mutant: each file's findings replace those of the files before it
analyze_file_overwriting(acc, file, path) ==
    IF ~file.readable THEN acc
    ELSE IF ~parse_file(file.lines) THEN acc
    ELSE run_detectors(file.lines, path)

\* the body of the `for file in files` loop of analyze: the findings after `file`
analyze_file(acc, file, path) ==
    IF ~file.readable THEN acc
    ELSE IF ~parse_file(file.lines) THEN acc
    ELSE acc \o run_detectors(file.lines, path)

\* mutant: only the files that were analysed are counted
files_scanned_analysed(fls) ==
    Len(SelectSeq(fls, LAMBDA p : FileSystem[p].readable /\ parse_file(FileSystem[p].lines)))

\* files_scanned: files.len()
files_scanned(fls) == Len(fls)

RECURSIVE analyze_loop(_, _, _)
analyze_loop(acc, fsys, fls) ==
    IF fls = <<>> THEN acc
    ELSE analyze_loop(analyze_file(acc, fsys[Head(fls)], Head(fls)), fsys, Tail(fls))

\* analyze, as a function of the file system and the list of files
analyze(fsys, fls) ==
    [findings |-> sort_by_severity(analyze_loop(<<>>, fsys, fls)),
     files_scanned |-> files_scanned(fls)]

\* mutant: an unrecognized threshold never fails
should_fail_unknown_passes(threshold, r) ==
    CASE threshold = "high" -> has_high(r)
      [] threshold = "medium" -> has_medium_or_above(r)
      [] threshold = "low" -> r.findings # <<>>
      [] threshold = "none" -> FALSE
      [] OTHER -> FALSE

\* the match on fail_on of main
should_fail(threshold, r) ==
    CASE threshold = "high" -> has_high(r)
      [] threshold = "medium" -> has_medium_or_above(r)
      [] threshold = "low" -> r.findings # <<>>
      [] threshold = "none" -> FALSE
      [] OTHER -> has_high(r)

-----------------------------------------------------------------------------
(* Inputs of main *)

SeqsUpTo(S, n) == UNION { [1..k -> S] : k \in 0..n }

NoVisitor == [path |-> "", current_fn |-> None, findings |-> <<>>]

-----------------------------------------------------------------------------
(* main and analyze as a state machine *)

Init ==
    /\ files \in SeqsUpTo(Paths, MaxFiles)
    /\ fail_on = Unread
    /\ idx = 0
    /\ findings = <<>>
    /\ report = NoReport
    /\ exit_code = Running
    /\ pc = "main"
    /\ src = <<>> /\ pos = 0 /\ stack = <<>> /\ visitor = NoVisitor

\* main, lines 21-24: no file was discovered
MainNoFiles ==
    /\ pc = "main"
    /\ files = <<>>
    /\ exit_code' = 0
    /\ pc' = "done"
    /\ UNCHANGED <<files, fail_on, idx, findings, report, detVars>>

\* main, line 28: the call of analyze
MainAnalyze ==
    /\ pc = "main"
    /\ files # <<>>
    /\ idx' = 1
    /\ findings' = <<>>
    /\ pc' = "analyze"
    /\ UNCHANGED <<files, fail_on, report, exit_code, detVars>>

\* analyze, lines 72-75: read_to_string fails
AnalyzeReadError ==
    /\ pc = "analyze"
    /\ idx <= Len(files)
    /\ ~FileSystem[files[idx]].readable
    /\ findings' = analyze_file(findings, FileSystem[files[idx]], files[idx])
    /\ idx' = idx + 1
    /\ UNCHANGED <<files, fail_on, report, exit_code, pc, detVars>>

\* analyze, lines 77-80: syn::parse_file fails
AnalyzeParseError ==
    /\ pc = "analyze"
    /\ idx <= Len(files)
    /\ FileSystem[files[idx]].readable
    /\ ~parse_file(FileSystem[files[idx]].lines)
    /\ findings' = analyze_file(findings, FileSystem[files[idx]], files[idx])
    /\ idx' = idx + 1
    /\ UNCHANGED <<files, fail_on, report, exit_code, pc, detVars>>

\* analyze, lines 82-86: the detectors run on the parsed file
AnalyzeDetect ==
    /\ pc = "analyze"
    /\ idx <= Len(files)
    /\ FileSystem[files[idx]].readable
    /\ parse_file(FileSystem[files[idx]].lines)
    /\ ~detectors_panic(FileSystem[files[idx]].lines, files[idx])
    /\ findings' = analyze_file(findings, FileSystem[files[idx]], files[idx])
    /\ idx' = idx + 1
    /\ UNCHANGED <<files, fail_on, report, exit_code, pc, detVars>>

\* analyze, lines 84-86: a detector panics; nothing catches the panic, so it
\* unwinds through analyze and main: no report, no exit policy
AnalyzePanic ==
    /\ pc = "analyze"
    /\ idx <= Len(files)
    /\ FileSystem[files[idx]].readable
    /\ parse_file(FileSystem[files[idx]].lines)
    /\ detectors_panic(FileSystem[files[idx]].lines, files[idx])
    /\ pc' = "panicked"
    /\ UNCHANGED <<files, fail_on, idx, findings, report, exit_code, detVars>>

\* analyze, lines 89-94: sort and return
AnalyzeReturn ==
    /\ pc = "analyze"
    /\ idx > Len(files)
    /\ findings' = sort_by_severity(findings)
    /\ report' = [findings |-> findings', files_scanned |-> files_scanned(files)]
    /\ pc' = "exit"
    /\ UNCHANGED <<files, fail_on, idx, exit_code, detVars>>

\* main, lines 91-108: the exit policy. INPUT_FAIL_ON is an input of the
\* process: main reads it at line 13 and uses it here and nowhere before
MainExit ==
    /\ pc = "exit"
    /\ \E t \in FailOnValues :
          /\ fail_on' = t
          /\ exit_code' = IF should_fail(t, report) THEN 1 ELSE 0
    /\ pc' = "done"
    /\ UNCHANGED <<files, idx, findings, report, detVars>>

Next ==
    \/ MainNoFiles
    \/ MainAnalyze
    \/ AnalyzeReadError
    \/ AnalyzeParseError
    \/ AnalyzeDetect
    \/ AnalyzePanic
    \/ AnalyzeReturn
    \/ MainExit

Spec == Init /\ [][Next]_vars

-----------------------------------------------------------------------------
(* The source files the detectors are run on.  A file is written as the
   sequence of its elements, <<kind, argument>>; Lines gives its lines. *)

E(kind) == <<kind, 1>>
Stmt(text) == <<"stmt", text>>
Blank(n) == <<"blank", n>>
Pad(n) == <<"pad", n>>
FieldOf(attr, decl) == <<"field", <<attr, decl>>>>

RECURSIVE BlankLines(_)
BlankLines(n) == IF n = 0 THEN <<>> ELSE <<Other("")>> \o BlankLines(n - 1)

\* the attribute line of a field and the attributes syn gives the field
FieldAttrLines(attr) ==
    CASE attr = "account" -> <<Other("    #[account]")>>
      [] attr = "account()" -> <<Other("    #[account()]")>>
      [] attr = "account(mut)" -> <<Other("    #[account(mut)]")>>
      [] attr = "account(has_one)" -> <<Other("    #[account(has_one = authority)]")>>
      [] OTHER -> <<>>

FieldAttrs(attr) ==
    CASE attr = "account" -> <<Attr("account", <<>>)>>
      [] attr = "account()" -> <<Attr("account", <<>>)>>
      [] attr = "account(mut)" -> <<Attr("account", <<"mut">>)>>
      [] attr = "account(has_one)" -> <<Attr("account", <<"has_one", "authority">>)>>
      [] OTHER -> <<>>

FieldLine(decl, attrs) ==
    CASE decl = "AccountInfo" ->
            Field("    pub vault: AccountInfo<'info>,", "vault", <<"AccountInfo">>, attrs)
      [] decl = "AccountInfo // CHECK:" ->
            Field("    pub vault: AccountInfo<'info>, // CHECK: owned by the program",
                  "vault", <<"AccountInfo">>, attrs)
      [] decl = "UncheckedAccount" ->
            Field("    pub other: UncheckedAccount<'info>,", "other",
                  <<"UncheckedAccount">>, attrs)
      [] decl = "Account" ->
            Field("    pub config: Account<'info, Config>,", "config", <<"Account">>, attrs)
      [] decl = "Signer" ->
            Field("    pub authority: Signer<'info>,", "authority", <<"Signer">>, attrs)
      [] decl = "Program" ->
            Field("    pub system_program: Program<'info, System>,", "system_program",
                  <<"Program">>, attrs)

\* the lines of one element
Elem(e) ==
    LET kind == e[1]
        arg == e[2]
    IN  CASE kind = "fn withdraw" ->
                <<ItemFn("pub fn withdraw(ctx: Context<Withdraw>) -> Result<()> {", "withdraw")>>
          [] kind = "fn derive_vault" ->
                <<ItemFn("fn derive_vault(program_key: &Pubkey) {", "derive_vault")>>
          [] kind = "fn  withdraw" ->
                <<ItemFn("pub fn  withdraw(ctx: Context<Withdraw>) -> Result<()> {", "withdraw")>>
          [] kind = "fn inner" -> <<ItemFn("    fn inner() {", "inner")>>
          [] kind = "fn innermost" -> <<ItemFn("        fn innermost() {", "innermost")>>
          [] kind = "nested fn" ->
                <<ItemFn("    fn inner() {", "inner"), Close("    }")>>
          [] kind = "impl" -> <<Block("impl Vault {")>>
          [] kind = "method withdraw" ->
                <<ImplItemFn("    pub fn withdraw(&self) -> Result<()> {", "withdraw")>>
          [] kind = "const" -> <<ConstBlock("const INIT: () = {")>>
          [] kind = "}" -> <<Close("}")>>
          [] kind = "invoke_signed" ->
                <<ExprCall("    invoke_signed(&ix, &accounts, signer_seeds)?;",
                           <<"invoke_signed">>)>>
          [] kind = "x.invoke_signed" ->
                <<ExprMethodCall("    ix.invoke_signed(&accounts, signer_seeds)?;",
                                 "invoke_signed")>>
          [] kind = "invoke" ->
                <<ExprCall("    invoke(&ix, &accounts)?;", <<"invoke">>)>>
          [] kind = "program::invoke" ->
                <<ExprCall("    solana_program::program::invoke(&ix, &accounts)?;",
                           <<"solana_program", "program", "invoke">>)>>
          [] kind = "x.invoke" ->
                <<ExprMethodCall("    ix.invoke(&accounts)?;", "invoke")>>
          [] kind = "find_program_address" ->
                <<ExprCall("    let (pda, _) = Pubkey::find_program_address(&[b\"config\"], other.key);",
                           <<"Pubkey", "find_program_address">>)>>
          [] kind = "create_program_address" ->
                <<ExprCall("    let pda = Pubkey::create_program_address(&[b\"config\"], other.key)?;",
                           <<"Pubkey", "create_program_address">>)>>
          [] kind = "struct Accounts" ->
                <<Other("#[derive(Accounts)]"),
                  ItemStruct("pub struct Withdraw<'info> {", "Withdraw",
                             <<Attr("derive", <<"Accounts">>)>>)>>
          [] kind = "struct Clone" ->
                <<Other("#[derive(Clone)]"),
                  ItemStruct("pub struct Withdraw<'info> {", "Withdraw",
                             <<Attr("derive", <<"Clone">>)>>)>>
          [] kind = "field" -> FieldAttrLines(arg[1]) \o <<FieldLine(arg[2], FieldAttrs(arg[1]))>>
          [] kind = "stmt" -> <<Other(arg)>>
          [] kind = "blank" -> BlankLines(arg)
          [] kind = "pad" -> <<Other("// " \o Rep("x", arg))>>
          [] kind = "utf8 pad" -> <<Other("// " \o Rep("x", arg) \o "^~")>>

RECURSIVE Lines(_)
\* the lines of a file
Lines(elems) == IF elems = <<>> THEN <<>> ELSE Elem(Head(elems)) \o Lines(Tail(elems))

\* the first line at or after `from` that holds a syntax node the visitors see
NextNode(lines, from) ==
    LET there == {i \in from..Len(lines) : lines[i].node.k # "other"}
    IN  IF there = {} THEN Len(lines) + 1
        ELSE CHOOSE i \in there : \A j \in there : i <= j

NodeAt == Lines(src)[pos].node

-----------------------------------------------------------------------------
(* The CPI detector as a state machine: one step per syntax node *)

\* the function that holds the calls: an item function, the same declared with
\* two spaces, a method of an impl block, the initializer of a const
CpiOpenings ==
    { <<E("fn withdraw")>>, <<E("fn  withdraw")>>,
      <<E("impl"), E("method withdraw")>>, <<E("const")>> }

Closing(opening) == IF Len(opening) = 2 THEN <<E("}"), E("}")>> ELSE <<E("}")>>

\* what follows the function in the file: nothing, a function that derives the
\* bump, the same beyond the text window of the function
DeriveFn ==
    <<E("fn derive_vault"),
      Stmt("    let (pda, bump) = Pubkey::find_program_address(&[b\"vault\"], program_key);"),
      E("}")>>

CpiTrailers == { <<>>, DeriveFn, <<Pad(FnSourceWindow)>> \o DeriveFn }

InvokeSignedBody ==
    { E("invoke_signed"), E("x.invoke_signed"), E("nested fn"),
      Stmt("    // Vulnerable: invoke_signed without bump validation"),
      Stmt("    let b = ctx.accounts.vault.bump;"),
      E("find_program_address") }

InvokeSignedSources ==
    { o \o b \o Closing(o) \o t :
        o \in CpiOpenings, b \in SeqsUpTo(InvokeSignedBody, MaxBody), t \in CpiTrailers }

SignerEvidence ==
    { Stmt("    require!(ctx.accounts.authority.is_signer);"),
      Stmt("    // authority: Signer<'info>"),
      Stmt("    let k = ctx.accounts.authority.key();"),
      Stmt("    assert!(*a.key == expected);"),
      Stmt("    // #[account(has_one = authority)]"),
      Stmt("    // constraint = vault.owner == authority") }

OptionalEvidence == {<<>>} \cup {<<e>> : e \in SignerEvidence}

InvokeCalls == { E("invoke"), E("program::invoke"), E("x.invoke") }

\* blank lines between the evidence above and the call, and between the call
\* and the evidence below
GapsAbove == {0, InvokeLookback - 2, InvokeLookback - 1, InvokeLookback}
GapsBelow == {0, InvokeLookahead - 1, InvokeLookahead}

InvokeSources ==
    { <<E("fn withdraw")>> \o above \o <<Blank(ga)>> \o <<c>> \o <<Blank(gb)>> \o below
        \o <<E("}")>> :
        above \in OptionalEvidence, ga \in GapsAbove, c \in InvokeCalls,
        gb \in GapsBelow, below \in OptionalEvidence }

\* a comment line after `head` whose two-byte character begins `shift` bytes
\* after the last byte of the text window of the function `fn_name`
Utf8Pad(head, fn_name, window, shift) ==
    LET text == JoinLines(Lines(head))
        start == str_find(text, "fn " \o fn_name)[1]
    IN  <<"utf8 pad", start + window - Len(text) - 4 + shift>>

Utf8Shifts == {-1, 0, 1}

Utf8CpiSources ==
    { head \o <<Utf8Pad(head, "withdraw", FnSourceWindow, shift)>> :
        head \in { <<E("fn withdraw"), c, E("}")>> : c \in {E("invoke_signed"), E("x.invoke_signed")} },
        shift \in Utf8Shifts }

CpiSources == InvokeSignedSources \cup InvokeSources \cup Utf8CpiSources

InitCpi ==
    /\ src \in CpiSources
    /\ pos = NextNode(Lines(src), 1)
    /\ stack = <<>>
    /\ visitor = CpiVisitor("lib.rs")
    /\ pc = "cpi"
    /\ files = <<>> /\ fail_on = Unread /\ idx = 0 /\ findings = <<>>
    /\ report = NoReport /\ exit_code = Running

\* the visitor handles the node it is at and moves on to the next, unless the
\* handler panics
CpiStep ==
    IF cpi_panics(visitor, Lines(src), pos)
    THEN /\ pc' = "panicked"
         /\ UNCHANGED <<src, pos, stack, visitor, files, fail_on, idx, findings, report,
                        exit_code>>
    ELSE /\ visitor' = cpi_visit(visitor, stack, Lines(src), pos)
         /\ stack' = Nest(stack, NodeAt)
         /\ pos' = NextNode(Lines(src), pos + 1)
         /\ UNCHANGED <<src, pc, files, fail_on, idx, findings, report, exit_code>>

AtCpiNode == pc = "cpi" /\ pos <= Len(Lines(src))

\* visit_item_fn up to the walk of the function
CpiVisitItemFn == AtCpiNode /\ NodeAt.k = "fn" /\ CpiStep

\* visit_item_fn after the walk of the function
CpiLeaveItemFn == AtCpiNode /\ NodeAt.k = "close" /\ Head(stack) = "fn" /\ CpiStep

\* visit_expr_call
CpiVisitExprCall == AtCpiNode /\ NodeAt.k = "call" /\ CpiStep

\* visit_expr_method_call
CpiVisitExprMethodCall == AtCpiNode /\ NodeAt.k = "mcall" /\ CpiStep

\* the nodes CpiVisitor does not override
CpiVisitOther ==
    /\ AtCpiNode
    /\ \/ NodeAt.k \in {"method", "block", "const", "struct", "field"}
       \/ NodeAt.k = "close" /\ Head(stack) # "fn"
    /\ CpiStep

\* visit_file returns
CpiReturn ==
    /\ pc = "cpi"
    /\ pos > Len(Lines(src))
    /\ pc' = "cpi returned"
    /\ UNCHANGED <<src, pos, stack, visitor, files, fail_on, idx, findings, report, exit_code>>

NextCpi ==
    \/ CpiVisitItemFn
    \/ CpiLeaveItemFn
    \/ CpiVisitExprCall
    \/ CpiVisitExprMethodCall
    \/ CpiVisitOther
    \/ CpiReturn

SpecCpi == InitCpi /\ [][NextCpi]_vars

-----------------------------------------------------------------------------
(* The PDA detector as a state machine: one step per syntax node *)

PdaOpenings == { <<E("fn withdraw")>>, <<E("impl"), E("method withdraw")>> }

ProgramIdEvidence ==
    { Stmt("    let pid = ctx.program_id;"),
      Stmt("    let k = ctx.accounts.token_program.key();"),
      Stmt("    let id = crate::ID;"),
      Stmt("    let id = crate::id();"),
      Stmt("    let k = ID.key();") }

\* what follows the function in the file: nothing, a function that names the
\* program id, the same beyond the text window of the function
ProgramIdFn == <<E("fn derive_vault"), Stmt("    let pid = ctx.program_id;"), E("}")>>

PdaTrailers == { <<>>, ProgramIdFn, <<Pad(FnBodyWindow)>> \o ProgramIdFn }

PdaBody ==
    { E("find_program_address"), E("create_program_address"), E("nested fn"), E("invoke") }
        \cup ProgramIdEvidence

PdaBodySources ==
    { o \o b \o Closing(o) \o t :
        o \in PdaOpenings, b \in SeqsUpTo(PdaBody, MaxBody), t \in PdaTrailers }

OptionalProgramId == {<<>>} \cup {<<e>> : e \in ProgramIdEvidence}

PdaGaps == {0, ProgramIdFallbackLines - 2, ProgramIdFallbackLines - 1, ProgramIdFallbackLines}

PdaWindowSources ==
    { o \o above \o <<Blank(ga)>> \o <<c>> \o <<Blank(gb)>> \o below \o Closing(o) :
        o \in PdaOpenings, above \in OptionalProgramId, ga \in PdaGaps,
        c \in {E("find_program_address"), E("create_program_address")},
        gb \in PdaGaps, below \in OptionalProgramId }

Utf8PdaSources ==
    { head \o <<Utf8Pad(head, "withdraw", FnBodyWindow, shift)>> :
        head \in { <<E("fn withdraw"), c, E("}")>> :
                     c \in {E("find_program_address"), E("create_program_address")} },
        shift \in Utf8Shifts }

PdaSources == PdaBodySources \cup PdaWindowSources \cup Utf8PdaSources

InitPda ==
    /\ src \in PdaSources
    /\ pos = NextNode(Lines(src), 1)
    /\ stack = <<>>
    /\ visitor = PdaVisitor("lib.rs")
    /\ pc = "pda"
    /\ files = <<>> /\ fail_on = Unread /\ idx = 0 /\ findings = <<>>
    /\ report = NoReport /\ exit_code = Running

\* the visitor handles the node it is at and moves on to the next, unless the
\* handler panics
PdaStep ==
    IF pda_panics(visitor, Lines(src), pos)
    THEN /\ pc' = "panicked"
         /\ UNCHANGED <<src, pos, stack, visitor, files, fail_on, idx, findings, report,
                        exit_code>>
    ELSE /\ visitor' = pda_visit(visitor, stack, Lines(src), pos)
         /\ stack' = Nest(stack, NodeAt)
         /\ pos' = NextNode(Lines(src), pos + 1)
         /\ UNCHANGED <<src, pc, files, fail_on, idx, findings, report, exit_code>>

AtPdaNode == pc = "pda" /\ pos <= Len(Lines(src))

\* visit_item_fn up to the walk of the function
PdaVisitItemFn == AtPdaNode /\ NodeAt.k = "fn" /\ PdaStep

\* visit_item_fn after the walk of the function
PdaLeaveItemFn == AtPdaNode /\ NodeAt.k = "close" /\ Head(stack) = "fn" /\ PdaStep

\* visit_expr_call
PdaVisitExprCall == AtPdaNode /\ NodeAt.k = "call" /\ PdaStep

\* the nodes PdaVisitor does not override
PdaVisitOther ==
    /\ AtPdaNode
    /\ \/ NodeAt.k \in {"mcall", "method", "block", "const", "struct", "field"}
       \/ NodeAt.k = "close" /\ Head(stack) # "fn"
    /\ PdaStep

\* visit_file returns
PdaReturn ==
    /\ pc = "pda"
    /\ pos > Len(Lines(src))
    /\ pc' = "pda returned"
    /\ UNCHANGED <<src, pos, stack, visitor, files, fail_on, idx, findings, report, exit_code>>

NextPda ==
    \/ PdaVisitItemFn
    \/ PdaLeaveItemFn
    \/ PdaVisitExprCall
    \/ PdaVisitOther
    \/ PdaReturn

SpecPda == InitPda /\ [][NextPda]_vars

-----------------------------------------------------------------------------
(* Both visitors on functions that declare functions: current_fn *)

\* what a function body is made of: the declaration of a nested function, of a
\* function nested in that, a closing brace, a call, a method call
NestTokens ==
    { E("fn inner"), E("fn innermost"), E("}"), E("find_program_address"),
      E("x.invoke_signed") }

RECURSIVE Balanced(_, _)
\* every brace of the body closes a function the body declared
Balanced(b, depth) ==
    IF b = <<>> THEN depth = 0
    ELSE LET kind == Head(b)[1]
         IN  IF kind \in {"fn inner", "fn innermost"} THEN Balanced(Tail(b), depth + 1)
             ELSE IF kind = "}" THEN depth > 0 /\ Balanced(Tail(b), depth - 1)
             ELSE Balanced(Tail(b), depth)

NestSources ==
    { o \o b \o Closing(o) :
        o \in PdaOpenings, b \in {x \in SeqsUpTo(NestTokens, MaxNest) : Balanced(x, 0)} }

InitNest ==
    /\ src \in NestSources
    /\ pos = NextNode(Lines(src), 1)
    /\ stack = <<>>
    /\ \/ pc = "cpi" /\ visitor = CpiVisitor("lib.rs")
       \/ pc = "pda" /\ visitor = PdaVisitor("lib.rs")
    /\ files = <<>> /\ fail_on = Unread /\ idx = 0 /\ findings = <<>>
    /\ report = NoReport /\ exit_code = Running

NextNest == NextCpi \/ NextPda

SpecNest == InitNest /\ [][NextNest]_vars

-----------------------------------------------------------------------------
(* The account detector as a state machine: one step per syntax node *)

CheckComments ==
    { Stmt("    /// CHECK: validated by the handler"),
      Stmt("    // CHECK: validated by the handler"),
      Stmt("    /// SAFETY: validated by the handler"),
      Stmt("    // SAFETY: validated by the handler") }

OptionalComment == {<<>>} \cup {<<c>> : c \in CheckComments}

FieldAttrKinds == {"", "account", "account()", "account(has_one)"}

FieldDecls ==
    {"AccountInfo", "AccountInfo // CHECK:", "UncheckedAccount", "Account", "Signer", "Program"}

\* a field, the blank lines above it and the comment above these
FieldGroups ==
    { c \o <<Blank(g)>> \o <<FieldOf(a, d)>> :
        c \in OptionalComment, g \in 0..(MaxPre - 1), a \in FieldAttrKinds, d \in FieldDecls }

\* the fields that follow it in the struct
LaterFields ==
    SeqsUpTo({ FieldOf("", "AccountInfo"), FieldOf("account", "Account"), FieldOf("", "Signer") },
             MaxFields - 1)

AccountSources ==
    { <<h>> \o g \o r \o <<E("}")>> :
        h \in {E("struct Accounts"), E("struct Clone")}, g \in FieldGroups, r \in LaterFields }

InitAccounts ==
    /\ src \in AccountSources
    /\ pos = NextNode(Lines(src), 1)
    /\ stack = <<>>
    /\ visitor = AccountVisitor("lib.rs")
    /\ pc = "accounts"
    /\ files = <<>> /\ fail_on = Unread /\ idx = 0 /\ findings = <<>>
    /\ report = NoReport /\ exit_code = Running

\* the visitor moves on to the next node
AccountStep ==
    /\ visitor' = account_visit(visitor, stack, Lines(src), pos)
    /\ stack' = Nest(stack, NodeAt)
    /\ pos' = NextNode(Lines(src), pos + 1)
    /\ UNCHANGED <<src, pc, files, fail_on, idx, findings, report, exit_code>>

AtAccountNode == pc = "accounts" /\ pos <= Len(Lines(src))

\* visit_item_struct, line 105: has_derive_accounts decides whether the fields
\* are looked at
AccountVisitItemStruct == AtAccountNode /\ NodeAt.k = "struct" /\ AccountStep

\* visit_item_struct, lines 110-167: one field of an account context
AccountVisitField ==
    /\ AtAccountNode
    /\ NodeAt.k = "field"
    /\ has_derive_accounts(EnclosingStruct(Lines(src), pos).attrs)
    /\ AccountStep

\* a field of a struct that visit_item_struct returned from at line 106
AccountSkipField ==
    /\ AtAccountNode
    /\ NodeAt.k = "field"
    /\ ~has_derive_accounts(EnclosingStruct(Lines(src), pos).attrs)
    /\ AccountStep

\* the nodes AccountVisitor does not override
AccountVisitOther ==
    /\ AtAccountNode
    /\ NodeAt.k \notin {"struct", "field"}
    /\ AccountStep

\* visit_file returns
AccountReturn ==
    /\ pc = "accounts"
    /\ pos > Len(Lines(src))
    /\ pc' = "accounts returned"
    /\ UNCHANGED <<src, pos, stack, visitor, files, fail_on, idx, findings, report, exit_code>>

NextAccounts ==
    \/ AccountVisitItemStruct
    \/ AccountVisitField
    \/ AccountSkipField
    \/ AccountVisitOther
    \/ AccountReturn

SpecAccounts == InitAccounts /\ [][NextAccounts]_vars

-----------------------------------------------------------------------------
(* Properties of the orchestrator and the exit policy *)

Analysable(p) == FileSystem[p].readable /\ parse_file(FileSystem[p].lines)

Count(sq, x) == Cardinality({i \in 1..Len(sq) : sq[i] = x})

Perms(n) == {q \in [1..n -> 1..n] : \A i, j \in 1..n : q[i] = q[j] => i = j}

Permuted(sq, q) == [i \in 1..Len(sq) |-> sq[q[i]]]

Severities(sq) == [i \in 1..Len(sq) |-> sq[i].severity]

\* C1: the findings of the report are non-decreasing in severity rank: no
\* finding is followed by one of strictly higher severity
C1_FindingsSortedBySeverity ==
    report # NoReport =>
        \A i, j \in 1..Len(report.findings) :
            i < j => SeverityRank(report.findings[i].severity)
                        <= SeverityRank(report.findings[j].severity)

\* analyze has returned a report of High and Medium findings which the
\* detectors had produced out of order
C1_Witness ==
    /\ report # NoReport
    /\ \E i \in 1..Len(report.findings) : report.findings[i].severity = "Medium"
    /\ LET raw == analyze_loop(<<>>, FileSystem, files)
       IN  \E i \in 1..(Len(raw) - 1) :
              raw[i].severity = "Medium" /\ raw[i + 1].severity = "High"

\* C2: files_scanned is the length of the list passed to analyze, whatever
\* became of each file
C2_FilesScannedIsLength ==
    report # NoReport => report.files_scanned = Len(files)

\* a report over a list holding an unreadable, an unparsable and an analysed file
C2_Witness ==
    /\ report # NoReport
    /\ report.files_scanned = 3
    /\ \E i \in 1..Len(files) : ~FileSystem[files[i]].readable
    /\ \E i \in 1..Len(files) : FileSystem[files[i]].readable /\ ~parse_file(FileSystem[files[i]].lines)
    /\ \E i \in 1..Len(files) : Analysable(files[i])

\* C3: unreadable and unparsable files contribute nothing and stop nothing: the
\* findings are those of the list with these files removed, no finding names
\* such a file, and every analysable file has all its detectors' findings in
\* the report
C3_FailedFilesAreSkipped ==
    report # NoReport =>
        /\ report.findings = analyze(FileSystem, SelectSeq(files, Analysable)).findings
        /\ \A i \in 1..Len(report.findings) :
              \E k \in 1..Len(files) :
                  files[k] = report.findings[i].file /\ Analysable(files[k])
        /\ \A k \in 1..Len(files) :
              Analysable(files[k]) =>
                  LET own == run_detectors(FileSystem[files[k]].lines, files[k])
                  IN  \A m \in 1..Len(own) : Count(report.findings, own[m]) >= 1

\* a file with findings was analysed after an unparsable and an unreadable one
C3_Witness ==
    /\ report # NoReport
    /\ Len(files) = 3
    /\ ~Analysable(files[1]) /\ ~Analysable(files[2])
    /\ FileSystem[files[1]].readable # FileSystem[files[2]].readable
    /\ Analysable(files[3])
    /\ Len(report.findings) = 3

\* C4 as claimed: analyze returns the same findings at the same positions for
\* every permutation of the list of files
C4_SameSequenceForEveryOrder ==
    pc = "exit" =>
        \A q \in Perms(Len(files)) :
            analyze(FileSystem, Permuted(files, q)).findings = report.findings

\* C4 as amended: for every permutation of the list of files analyze returns
\* the same findings, each as many times, and the same severity at every
\* position; only the order among findings of equal severity may differ
C4_SameFindingsUpToTies ==
    pc = "exit" =>
        \A q \in Perms(Len(files)) :
            LET other == analyze(FileSystem, Permuted(files, q)).findings
            IN  /\ Severities(other) = Severities(report.findings)
                /\ \A i \in 1..Len(other) :
                      Count(other, other[i]) = Count(report.findings, other[i])

\* analyze has returned, and another order of the same files gives another
\* sequence of findings
C4_Witness ==
    /\ pc = "exit"
    /\ Len(files) = 3
    /\ \E q \in Perms(Len(files)) :
          analyze(FileSystem, Permuted(files, q)).findings # report.findings

ThresholdRank(t) ==
    CASE t = "high" -> 0
      [] t = "medium" -> 1
      [] t = "low" -> 2
      [] t = "none" -> -1
      [] OTHER -> 0

AtOrAbove(t, r) ==
    \E i \in 1..Len(r.findings) : SeverityRank(r.findings[i].severity) <= ThresholdRank(t)

\* C9: the process exits with status 1 iff the report holds a finding at or
\* above the threshold (an unrecognized threshold counting as high, none never
\* failing); failing under high implies failing under medium, which implies
\* failing under low
C9_ExitPolicy ==
    /\ pc = "done" => exit_code \in {0, 1}
    /\ (pc = "done" /\ report # NoReport) =>
          (exit_code = 1 <=> AtOrAbove(fail_on, report))
    /\ report # NoReport =>
          /\ should_fail("high", report) => should_fail("medium", report)
          /\ should_fail("medium", report) => should_fail("low", report)
          /\ ~should_fail("none", report)
          /\ should_fail("critical", report) <=> should_fail("high", report)

\* the process failed under an unrecognized threshold on a report with a High finding
C9_Witness ==
    /\ pc = "done"
    /\ exit_code = 1
    /\ fail_on = "critical"
    /\ \E i \in 1..Len(report.findings) : report.findings[i].severity = "High"

-----------------------------------------------------------------------------
(* Properties of the CPI detector *)

RECURSIVE OpenAt(_, _)
\* the lines of the nodes that are open at a line, innermost first
OpenAt(lines, i) ==
    IF i = 1 THEN <<>>
    ELSE LET st == OpenAt(lines, i - 1)
             n == lines[i - 1].node
         IN  IF Opens(n.k) THEN <<i - 1>> \o st
             ELSE IF n.k = "close" /\ st # <<>> THEN Tail(st)
             ELSE st

\* the line that declares the function a line is in, 0 when it is in none
EnclosingFn(lines, i) ==
    LET fns == SelectSeq(OpenAt(lines, i), LAMBDA j : lines[j].node.k \in {"fn", "method"})
    IN  IF fns = <<>> THEN 0 ELSE Head(fns)

\* the line of the closing brace of the node declared at `start`
ClosingLine(lines, start) ==
    CHOOSE j \in (start + 1)..Len(lines) :
        /\ lines[j].node.k = "close"
        /\ OpenAt(lines, j) # <<>>
        /\ Head(OpenAt(lines, j)) = start

\* the text of the function declared at `start`, from its declaration to its
\* closing brace
FnText(lines, start) == JoinLines(SubSeq(lines, start, ClosingLine(lines, start)))

\* how many findings of a check a detector reported at a line
FindingsAt(fsq, chk, line) ==
    Cardinality({i \in 1..Len(fsq) : fsq[i].check = chk /\ fsq[i].line = line})

CallsInvokeSigned(n) ==
    \/ n.k = "call" /\ n.path[Len(n.path)] = "invoke_signed"
    \/ n.k = "mcall" /\ n.name = "invoke_signed"

CallsInvoke(n) ==
    \/ n.k = "call" /\ n.path[Len(n.path)] = "invoke"
    \/ n.k = "mcall" /\ n.name = "invoke"

\* C7: an invoke_signed call in a function whose text holds both "bump" and
\* "find_program_address" yields no invoke-signed-no-bump; in a function whose
\* text holds no "bump" at all it yields exactly one, at the line of the call,
\* whatever the rest of the file holds.  (The claim's third case, "bump" without
\* "find_program_address", is not stated here: check_invoke_signed_call also
\* takes ".bump", "bump =" and "bump=" for evidence.)
C7_BumpEvidenceOfTheFunctionDecides ==
    pc = "cpi returned" =>
        LET lines == Lines(src)
        IN  \A i \in 1..Len(lines) :
                (CallsInvokeSigned(lines[i].node) /\ EnclosingFn(lines, i) # 0) =>
                    LET text == FnText(lines, EnclosingFn(lines, i))
                        n == FindingsAt(visitor.findings, "invoke-signed-no-bump", i)
                    IN  /\ (str_contains(text, "bump")
                               /\ str_contains(text, "find_program_address")) => n = 0
                        /\ ~str_contains(text, "bump") => n = 1

\* the lines the claim's window of an invoke call holds: the 20 lines before
\* the call, the line of the call, the 5 lines after it
ClaimedInvokeWindow(lines, i) ==
    SubSeq(lines, IF i > InvokeLookback THEN i - InvokeLookback ELSE 1,
                  Min(i + InvokeLookahead, Len(lines)))

HoldsSignerEvidence(text) ==
    \E p \in {"is_signer", "Signer<", ".key()", ".key ==", "has_one", "constraint"} :
        str_contains(text, p)

\* C10: a call of invoke yields exactly one cpi-missing-signer-check at its
\* line iff no line from the 20th before it to the 5th after it holds signer
\* evidence, and none otherwise
C10_InvokeWindowIsTwentyBeforeFiveAfter ==
    pc = "cpi returned" =>
        LET lines == Lines(src)
        IN  \A i \in 1..Len(lines) :
                CallsInvoke(lines[i].node) =>
                    LET w == ClaimedInvokeWindow(lines, i)
                        n == FindingsAt(visitor.findings, "cpi-missing-signer-check", i)
                    IN  IF \E k \in 1..Len(w) : HoldsSignerEvidence(w[k].text)
                        THEN n = 0
                        ELSE n = 1

-----------------------------------------------------------------------------
(* Properties of the account detector *)

\* a line comment that holds "CHECK:" or "SAFETY:"
HoldsCheckComment(text) ==
    \E i \in 1..(Len(text) - 1) :
        /\ SubSeq(text, i, i + 1) = "//"
        /\ \/ str_contains(SubSeq(text, i, Len(text)), "CHECK:")
           \/ str_contains(SubSeq(text, i, Len(text)), "SAFETY:")

\* the 3 lines immediately before a line
ThreeLinesBefore(lines, i) == SubSeq(lines, IF i > 3 THEN i - 3 ELSE 1, i - 1)

\* the fields of account contexts: named fields of structs that derive Accounts
ContextField(lines, i) ==
    /\ lines[i].node.k = "field"
    /\ has_derive_accounts(EnclosingStruct(lines, i).attrs)

RawHandle(ty) == ty[Len(ty)] \in {"AccountInfo", "UncheckedAccount"}

\* C5 (its last sentence): a raw-handle field of an account context that is
\* preceded within 3 lines by a comment with "CHECK:" or "SAFETY:" never yields
\* unchecked-account
C5_CheckCommentSuppressesUncheckedAccount ==
    pc = "accounts returned" =>
        LET lines == Lines(src)
        IN  \A i \in 1..Len(lines) :
                (ContextField(lines, i) /\ RawHandle(lines[i].node.path)) =>
                    LET before == ThreeLinesBefore(lines, i)
                    IN  (\E k \in 1..Len(before) : HoldsCheckComment(before[k].text))
                            => FindingsAt(visitor.findings, "unchecked-account", i) = 0

\* C6: a field of an account context that is no raw handle, signer or program
\* yields one Medium missing-constraint when its only marker attribute is bare
\* (#[account], #[account()]), and none when the attribute has content or when
\* there is no attribute
C6_BareMarkerYieldsMissingConstraint ==
    pc = "accounts returned" =>
        LET lines == Lines(src)
        IN  \A i \in 1..Len(lines) :
                LET f == lines[i].node
                    bare == /\ f.attrs # <<>>
                            /\ \A a \in 1..Len(f.attrs) :
                                  f.attrs[a].path = "account" /\ f.attrs[a].args = <<>>
                    mediums == {m \in 1..Len(visitor.findings) :
                                   /\ visitor.findings[m].check = "missing-constraint"
                                   /\ visitor.findings[m].line = i
                                   /\ visitor.findings[m].severity = "Medium"}
                IN  (/\ ContextField(lines, i)
                     /\ f.path[Len(f.path)] \notin
                            {"AccountInfo", "UncheckedAccount", "Signer", "Program", "SystemProgram"})
                        => Cardinality(mediums) = IF bare THEN 1 ELSE 0

-----------------------------------------------------------------------------
(* Properties of the PDA detector *)

\* the window the claim gives a call: the text of the enclosing function from
\* its declaration, up to 3000 characters, when the call is in a function whose
\* declaration the text holds; else the 10 lines before and after the call
ClaimedProgramIdWindow(lines, i) ==
    LET fn == EnclosingFn(lines, i)
        source == JoinLines(lines)
        found == IF fn = 0 THEN None ELSE str_find(source, "fn " \o lines[fn].node.name)
    IN  IF found # None
        THEN str_slice(source, found[1], Min(Len(source), found[1] + FnBodyWindow))
        ELSE JoinLines(SubSeq(lines,
                IF i > ProgramIdFallbackLines THEN i - ProgramIdFallbackLines ELSE 1,
                Min(i + ProgramIdFallbackLines, Len(lines))))

HoldsProgramIdEvidence(text) ==
    \E p \in {"program_id", "program.key()", "crate::ID", "crate::id()", "ID.key()"} :
        str_contains(text, p)

\* C8: a call whose path holds find_program_address yields exactly one finding,
\* High pda-program-id at its line naming find_program_address, when its window
\* shows no program-id evidence, and no finding when the window shows any
C8_ProgramIdEvidenceDecides ==
    pc = "pda returned" =>
        LET lines == Lines(src)
        IN  \A i \in 1..Len(lines) :
                (lines[i].node.k = "call" /\ is_find_program_address(lines[i].node.path)) =>
                    LET at == SelectSeq(visitor.findings, LAMBDA f : f.line = i)
                    IN  IF HoldsProgramIdEvidence(ClaimedProgramIdWindow(lines, i))
                        THEN at = <<>>
                        ELSE /\ Len(at) = 1
                             /\ at[1].severity = "High"
                             /\ at[1].check = "pda-program-id"
                             /\ str_contains(at[1].message, "find_program_address")

\* the findings a step of the visitor added
NewFindings == SubSeq(visitor'.findings, Len(visitor.findings) + 1, Len(visitor'.findings))

FunctionNotLocated ==
    \/ visitor.current_fn = None
    \/ str_find(JoinLines(Lines(src)), "fn " \o visitor.current_fn[1]) = None

\* the 15 lines before a line, the line and the 15 lines after it
ClaimedBumpFallbackWindow(lines, i) ==
    SubSeq(lines, IF i > BumpFallbackLines THEN i - BumpFallbackLines ELSE 1,
           Min(i + BumpFallbackLines, Len(lines)))

\* C12: an invoke_signed call visited while its function cannot be located by
\* name adds an invoke-signed-no-bump at its line exactly when no line of the
\* 15 lines before it through the 15 lines after it holds "bump"
C12_UnlocatedFunctionUsesFallbackWindow ==
    [][((CpiVisitExprCall \/ CpiVisitExprMethodCall)
            /\ CallsInvokeSigned(NodeAt) /\ FunctionNotLocated /\ pc' = "cpi") =>
        LET w == ClaimedBumpFallbackWindow(Lines(src), pos)
            added == {k \in 1..Len(NewFindings) :
                         /\ NewFindings[k].check = "invoke-signed-no-bump"
                         /\ NewFindings[k].line = pos}
        IN  Cardinality(added) =
                IF \E k \in 1..Len(w) : str_contains(w[k].text, "bump") THEN 0 ELSE 1]_vars

-----------------------------------------------------------------------------
(* Properties of the current-function slot *)

\* the lines of the function declarations entered and not left when the
\* visitor is at a line, the most recently entered first
EnteredFns(lines, i) == SelectSeq(OpenAt(lines, i), LAMBDA j : lines[j].node.k = "fn")

\* a function declared inside the function declared at line o has been left
\* before line i
NestedFnLeft(lines, o, i) ==
    \E j \in (o + 1)..(i - 1) :
        lines[j].node.k = "fn" /\ ClosingLine(lines, j) < i

\* C13: in both detectors the slot is set to the name of a function
\* declaration when it is entered, emptied when any function declaration is
\* left, and touched by no other node; it is empty or holds the name of the
\* most recently entered declaration not yet left; once a nested declaration
\* has been left it is empty at every call of the rest of the outer function
C13_CurrentFnIsASingleSlot ==
    /\ [](LET lines == Lines(src)
              entered == EnteredFns(lines, pos)
          IN  /\ \/ visitor.current_fn = None
                 \/ entered # <<>> /\ visitor.current_fn = Some(lines[Head(entered)].node.name)
              /\ (pos <= Len(lines) /\ NodeAt.k \in {"call", "mcall"} /\ entered # <<>>) =>
                    IF NestedFnLeft(lines, Head(entered), pos)
                    THEN visitor.current_fn = None
                    ELSE visitor.current_fn = Some(lines[Head(entered)].node.name))
    /\ [][IF CpiVisitItemFn \/ PdaVisitItemFn
          THEN visitor'.current_fn = Some(NodeAt.name)
          ELSE IF CpiLeaveItemFn \/ PdaLeaveItemFn
          THEN visitor'.current_fn = None
          ELSE visitor'.current_fn = visitor.current_fn]_vars

\* the PDA visitor is at a call of the outer function, after a function nested
\* in it that holds a call has been left, and the slot is empty
C13_Witness ==
    /\ pc = "pda"
    /\ pos <= Len(Lines(src))
    /\ NodeAt.k = "call"
    /\ EnteredFns(Lines(src), pos) # <<>>
    /\ LET o == Head(EnteredFns(Lines(src), pos))
       IN  /\ Lines(src)[o].node.name = "withdraw"
           /\ \E j \in (o + 1)..(pos - 1) :
                 /\ Lines(src)[j].node.k = "fn"
                 /\ ClosingLine(Lines(src), j) < pos
                 /\ Lines(src)[j + 1].node.k = "call"
    /\ visitor.current_fn = None

-----------------------------------------------------------------------------
(* Properties of the detectors on text that is not ASCII *)

\* C14: no detector panics on a parsed file, whatever characters its text
\* holds and wherever its functions lie: the walk of the CPI detector never
\* stops in a panic
C14_NoDetectorPanics == pc # "panicked"

====
